---------------------------- MODULE Spec2Model ----------------------------
(***************************************************************************)
(* Batch invoice processing: InvoiceBatchProcessor.process_batch of        *)
(* src/process_invoice_new.py as a state machine.                          *)
(*                                                                         *)
(* One coordinator coroutine (process_batch) and one asyncio task per      *)
(* eligible file (_process_and_upload).  asyncio runs a coroutine without  *)
(* interruption between two awaits, so every action below is the code      *)
(* between two awaits.  The awaits are: the three kinds of S3 put, the     *)
(* rate limiter's acquire, the remote generate_content call under          *)
(* asyncio.wait_for, and asyncio.gather.                                   *)
(*                                                                         *)
(* Time is counted in seconds and observed every TickSeconds.              *)
(***************************************************************************)
EXTENDS Integers, Sequences, FiniteSets, TLC

VARIABLES
    gemini_api_key, \* os.environ.get("GEMINI_API_KEY")
    files,          \* invoice_files: the argument of process_batch
    rpm,            \* requests_per_minute given to __init__
    pc,             \* where the caller of the processor is
    uuids,          \* how many times uuid.uuid4() was called
    batch_id,       \* batch_id of process_batch
    timestamp,      \* timestamp of process_batch: the clock reading at its start
    written,        \* the keys this call of process_batch has put (history)
    earlier,        \* summary and keys of the calls that returned before (history)
    tasks,          \* the list `tasks`: for each task the index of its file
    skipped_count,  \* skipped_count of process_batch
    tpc,            \* where each task is
    result,         \* the result dict each task holds
    elapsed,        \* seconds since asyncio.wait_for started, per task
    remote,         \* what the remote call of each task did (history)
    s3_key,         \* s3_key of _upload_to_s3, per task, while _upload_to_s3 runs
    put,            \* what the put of each task's artifact did (history)
    level,          \* AsyncLimiter._level, in units of 1/WindowSeconds operation
    recent,         \* ages (s) of the acquisitions of the last WindowSeconds, as of
                    \* the limiter's last clock reading (history)
    now,            \* the clock: seconds since the program started (saturating)
    s3,             \* keys of the objects put into the bucket
    summary,        \* the dict `summary` of process_batch
    summary_put,    \* outcome of the put of the summary object
    returned,       \* what process_batch returned
    runner,         \* TRUE when the batch runs under streamlit_runner.py
    processed_count, \* ProgressReportingProcessor.processed_count
    total_count,    \* ProgressReportingProcessor.total_count
    progress_file,  \* PROGRESS_FILE: << >> when absent, else <<what it holds>>
    summary_file,   \* SUMMARY_FILE: << >> when absent, else <<what it holds>>
    complete_file,  \* COMPLETE_FILE: None when absent, else what it holds
    timer_file,     \* TIMER_FILE: None when absent, else "started" or "ended"
    polled,         \* `current` of the last two load_progress of the page (history)
    slots,          \* per task: how often it took a slot of the limiter (history)
    calls,          \* per task: how often it invoked the remote service (history)
    puts,           \* per task: how often it handed an artifact to the bucket (history)
    summary_puts,   \* the summaries handed to the bucket by this call (history)
    processing_started,  \* st.session_state.processing_started
    processing_complete, \* st.session_state.processing_complete
    processing_thread,   \* st.session_state.processing_thread is not None
    page,           \* where the run of the page's script stands
    shown_kind,     \* what the results view showed last: "none", "error", "complete"
    shown_summary,  \* the summary the results view showed last: << >> or <<summary>>
    stale,          \* the worker thread of an earlier click, if one is left running
    stale_count,    \* its processed_count
    stale_left,     \* the number of its items still to be reported
    thread_starts,  \* run_async_non_blocking calls since the last click (history)
    current_path,   \* S3 browser: st.session_state.current_path, as its folder names
    selected_file,  \* S3 browser: st.session_state.selected_file
    history,        \* S3 browser: st.session_state.history
    history_index,  \* S3 browser: st.session_state.history_index
    last_click,     \* S3 browser: the button clicked last (history)
    invoice_pc,     \* process_invoice.py: where the call of process_invoice is
    invoice_calls,  \* process_invoice.py: how often generate_content was called
    invoice_out     \* process_invoice.py: what process_invoice returned

vars == <<gemini_api_key, files, rpm, pc, uuids, batch_id, timestamp, written,
          earlier, tasks, skipped_count, tpc, result, elapsed, remote, s3_key,
          put, level, recent, now, s3, summary, summary_put, returned,
          runner, processed_count, total_count, progress_file, summary_file,
          complete_file, timer_file, polled, slots, calls, puts, summary_puts,
          processing_started, processing_complete, processing_thread, page,
          shown_kind, shown_summary, stale, stale_count, stale_left, thread_starts,
          current_path, selected_file, history, history_index, last_click,
          invoice_pc, invoice_calls, invoice_out>>

\* the call of process_invoice of process_invoice.py
singleVars == <<invoice_pc, invoice_calls, invoice_out>>

\* the session state of pages/1_S3_Browser.py
browserVars == <<current_path, selected_file, history, history_index, last_click>>

\* the session state of the pages and the worker of an earlier click
pageVars == <<processing_started, processing_complete, processing_thread, page,
              shown_kind, shown_summary, stale, stale_count, stale_left,
              thread_starts, browserVars, singleVars>>

\* what the tasks and process_batch have done so far
historyVars == <<slots, calls, puts, summary_puts>>

\* the state of streamlit_runner.py
runnerVars == <<runner, processed_count, total_count, progress_file, summary_file,
                complete_file, timer_file, polled>>

-----------------------------------------------------------------------------
(* Bounds of the model *)

MaxFiles == 3
MaxRate == 2
\* the largest batch of the behaviours checked for progress (FairSpec)
MaxFairFiles == 2
\* the largest batch of the behaviours with a second call (RunsSpec)
MaxRunFiles == 1
\* the largest batch of the behaviours under the page (RunnerSpec)
MaxRunnerFiles == 2
\* the largest batch of the behaviours with files of one base name (TwinSpec)
MaxTwinFiles == 2
\* the largest batch of the behaviours up to the first answer (BurstSpec)
MaxBurstFiles == 11

(* Program constants *)

WindowSeconds == 60
TimeoutSeconds == 120

TickSeconds == WindowSeconds \div 2

-----------------------------------------------------------------------------
(* Values *)

None == "None"
NoKey == << >>

Min(a, b) == IF a < b THEN a ELSE b
Max(a, b) == IF a > b THEN a ELSE b

\* A file is (file_bytes, file_type, file_name).  file_type is <<major, minor>>
\* for "major/minor", file_name is <<base, extension>>, and file_bytes is
\* "image" when PIL can open it and "junk" when it cannot.
PngFile == [bytes |-> "image", type |-> <<"image", "png">>, name |-> <<"a", ".png">>]
BadFile == [bytes |-> "junk", type |-> <<"image", "png">>, name |-> <<"bad", ".png">>]
TxtFile == [bytes |-> "junk", type |-> <<"text", "plain">>, name |-> <<"notes", ".txt">>]
\* A file whose name holds a character that sys.stdout cannot encode.
OddFile == [bytes |-> "image", type |-> <<"image", "png">>, name |-> <<"nonascii", ".png">>]

\* An image with nothing to read on it.
BlankFile == [bytes |-> "blank", type |-> <<"image", "png">>, name |-> <<"blank", ".png">>]

\* An image with the base name of PngFile and another extension.
JpgFile == [bytes |-> "image", type |-> <<"image", "jpeg">>, name |-> <<"a", ".jpg">>]

\* an image whose name holds the word the results view looks for
ErrorNamedFile == [bytes |-> "image", type |-> <<"image", "png">>, name |-> <<"Error", ".png">>]

FileKinds == {PngFile, BadFile, TxtFile, OddFile}
AllKinds == FileKinds \cup {BlankFile}

BatchesOf(kinds, n) == UNION {[1..m -> kinds] : m \in 0..n}

Batches(n) == BatchesOf(FileKinds, n)

Inputs == Batches(MaxFiles)
FairInputs == Batches(Min(MaxFairFiles, MaxFiles))

\* file_type.startswith('image/')
IsImage(file_type) == file_type[1] = "image"

\* variant with a seeded fault: the bytes are not opened before the call
CanOpenAnything(file_bytes) == TRUE

\* Image.open(BytesIO(image_data)) succeeds
CanOpen(file_bytes) == file_bytes \in {"image", "blank"}

\* print(f"... {file_name} ...") succeeds: sys.stdout can encode the name
CanPrint(file_name) == file_name[1] # "nonascii"

\* os.path.splitext(file_name)[0]
FileBase(file_name) == file_name[1]


-----------------------------------------------------------------------------
(* Python dicts are functions whose domain is the set of keys present *)

EmptyDict == << >>

\* key in d
Has(d, key) == key \in DOMAIN d

\* d.get(key, default)
Get(d, key, default) == IF key \in DOMAIN d THEN d[key] ELSE default

\* d[key] = value
Set(d, key, value) ==
    [x \in DOMAIN d \cup {key} |-> IF x = key THEN value ELSE d[x]]

-----------------------------------------------------------------------------
(* The text of a remote response, as a sequence of characters *)

Texts == { <<"#">>, <<" ", "#", " ">> }

\* what the remote model finds to say of nothing
BlankTexts == { << >>, <<" ">> }

\* response.text of generate_content([prompt, image])
Answers(file_bytes) == IF file_bytes = "blank" THEN BlankTexts ELSE Texts

IsSpace(c) == c = " "

RECURSIVE LStrip(_)
LStrip(t) == IF t # << >> /\ IsSpace(Head(t)) THEN LStrip(Tail(t)) ELSE t

RECURSIVE RStrip(_)
RStrip(t) ==
    IF t # << >> /\ IsSpace(t[Len(t)]) THEN RStrip(SubSeq(t, 1, Len(t) - 1)) ELSE t

\* str.strip()
Strip(t) == RStrip(LStrip(t))

-----------------------------------------------------------------------------
(* The result dicts of _process_single_invoice (timestamp and                *)
(* processing_time_seconds, which no branch reads, are left out)             *)

ImageOpenError(file_name) ==
    [success |-> FALSE, file_name |-> file_name, error |-> "Image opening error"]

GeminiSuccess(file_name, text) ==
    [success |-> TRUE, file_name |-> file_name, markdown |-> Strip(text)]

GeminiTimeout(file_name) ==
    [success |-> FALSE, file_name |-> file_name,
     error |-> "Gemini API timeout after 120 seconds"]

\* variant with a seeded fault: the error text handed on as if it were the extracted markdown
GeminiErrorAsText(file_name) ==
    [success |-> TRUE, file_name |-> file_name, markdown |-> <<"E">>]

GeminiError(file_name) ==
    [success |-> FALSE, file_name |-> file_name, error |-> "Gemini API error"]

-----------------------------------------------------------------------------
(* Keys of the bucket: an f-string is the sequence of the parts it joins. *)
(* strftime gives the clock reading in seconds as text, for                 *)
(* "%Y-%m-%d_%H-%M-%S" and for "%H%M%S" alike.                              *)

\* datetime.datetime.now().strftime(...)
Strftime(clock) == ToString(clock)

\* variant with a seeded fault: the folder named after the clock reading alone
S3FolderOfStamp(id, stamp) == <<"invoice_processing/", stamp, "/">>

\* s3_folder = f"invoice_processing/{batch_id}_{timestamp}/"
S3Folder(id, stamp) == <<"invoice_processing/", id, "_", stamp, "/">>

\* batch_start_key
BatchStartKey(s3_folder) == s3_folder \o <<"_batch_start.txt">>

\* summary_key
SummaryKey(s3_folder) == s3_folder \o <<"_summary.json">>

\* variant with a seeded fault: the key without the clock reading
S3KeyNoStamp(res, s3_folder, timestamp_short) ==
    IF res.success
    THEN s3_folder \o <<FileBase(res.file_name), ".md">>
    ELSE s3_folder \o <<"errors/", FileBase(res.file_name), ".error.txt">>

\* s3_key of _upload_to_s3; timestamp_short is the clock reading
S3Key(res, s3_folder, timestamp_short) ==
    IF res.success
    THEN s3_folder \o <<FileBase(res.file_name), "_", timestamp_short, ".md">>
    ELSE s3_folder \o <<"errors/", FileBase(res.file_name), "_", timestamp_short,
                        ".error.txt">>

-----------------------------------------------------------------------------
(* aiolimiter.AsyncLimiter(requests_per_minute, 60): a leaky bucket of       *)
(* capacity max_rate that drains max_rate / time_period per second; leaving  *)
(* the `async with` block gives nothing back.  level counts 1/WindowSeconds  *)
(* of an operation so that the arithmetic stays in the integers.             *)

\* _leak(): the level after dt seconds
Leak(lvl, dt) == Max(lvl - dt * rpm, 0)

\* has_capacity(1)
HasCapacity == level + WindowSeconds <= rpm * WindowSeconds

-----------------------------------------------------------------------------
(* process_batch: the code between its awaits *)

RECURSIVE EligibleFrom(_, _)
EligibleFrom(fs, i) ==
    IF i > Len(fs) THEN << >>
    ELSE IF IsImage(fs[i].type) THEN <<i>> \o EligibleFrom(fs, i + 1)
    ELSE EligibleFrom(fs, i + 1)

\* variant with a seeded fault: the loop without the test of the file type
EligibleAll(fs) == [i \in 1..Len(fs) |-> i]

\* the loop over invoice_files: the indices of the files a task is created for
Eligible(fs) == EligibleFrom(fs, 1)

\* variant with a seeded fault: gather without return_exceptions
ReturnExceptionsOff == FALSE

\* asyncio.gather(*tasks, return_exceptions=True)
ReturnExceptions == TRUE

\* the failure record built for a task whose result is an exception; i is the
\* position of the task in `results`, and is used as an index of invoice_files
UnhandledRecord(i) ==
    [success |-> FALSE,
     file_name |-> IF i <= Len(files) THEN files[i].name ELSE <<"unknown_file", i>>,
     error |-> "Unhandled exception"]

\* processed_results
ProcessedResults ==
    [i \in 1..Len(tasks) |->
        IF tpc[i] = "raised" THEN UnhandledRecord(i) ELSE result[i]]

RECURSIVE CountSuccess(_, _)
CountSuccess(pr, i) ==
    IF i > Len(pr) THEN 0
    ELSE (IF Get(pr[i], "success", FALSE) THEN 1 ELSE 0) + CountSuccess(pr, i + 1)

\* successful = sum(1 for r in processed_results if r.get("success", False))
Successful(pr) == CountSuccess(pr, 1)

\* variant with a seeded fault: failed counted against the submitted files
FailedOfAll(pr) == Len(files) - Successful(pr)

\* failed = len(processed_results) - successful
Failed(pr) == Len(pr) - Successful(pr)

\* variant with a seeded fault: the test that guards the error text inverted
SummaryEntryInverted(r) ==
    [file_name |-> r.file_name,
     success |-> Get(r, "success", FALSE),
     s3_key |-> Get(r, "s3_key", NoKey),
     error |-> IF Get(r, "success", FALSE) THEN Get(r, "error", None) ELSE None]

\* one entry of summary["files"]
SummaryEntry(r) ==
    [file_name |-> r.file_name,
     success |-> Get(r, "success", FALSE),
     s3_key |-> Get(r, "s3_key", NoKey),
     error |-> IF ~Get(r, "success", FALSE) THEN Get(r, "error", None) ELSE None]

\* the dict `summary`
CompileSummary(pr) ==
    [batch_id |-> batch_id,
     timestamp |-> timestamp,
     s3_folder |-> S3Folder(batch_id, timestamp),
     total_files |-> Len(files),
     total_processed |-> Len(pr),
     successful |-> Successful(pr),
     failed |-> Failed(pr),
     files |-> [i \in 1..Len(pr) |-> SummaryEntry(pr[i])]]

\* variant with a seeded fault: the summary returned only when it was stored
ReturnValueIfStored(sum, put_ok) == IF put_ok THEN sum ELSE EmptyDict

\* variant with a seeded fault: the summary is changed after the put
ReturnValueNoted(sum, put_ok) == Set(sum, "summary_stored", put_ok)

\* what process_batch returns after the put of the summary ended (ok or not)
ReturnValue(sum, put_ok) == sum

-----------------------------------------------------------------------------
(* streamlit_runner.py: the files the worker thread and the page share      *)

\* the dict save_progress pickles (its time stamp is not modelled)
Progress(current, total, message) ==
    [current |-> current, total |-> total, message |-> message]

StartingMessage == <<"Starting processing...">>
CompleteMessage == <<"Processing complete!">>

\* f"Processing file {processed_count}/{total_count}: {file_name}"
ProcessingMessage(count, total, file_name) ==
    <<"Processing file ", ToString(count), "/", ToString(total), ": ">> \o file_name

\* what load_progress returns when the file is absent or pickle.load raises
DefaultProgress == Progress(0, 0, <<"Initializing...">>)

\* load_progress on a file that is absent (<< >>) or holds one pickled dict
LoadProgress(file) == IF file = << >> THEN DefaultProgress ELSE file[1]

\* the page keeps the last two values of progress['current'] it has shown
Observed(reads, progress) ==
    IF Len(reads) < 2
    THEN Append(reads, progress.current)
    ELSE <<reads[2], progress.current>>

\* save_progress: open(PROGRESS_FILE, 'wb') empties the file, pickle.dump
\* fills it and the file is closed.  The page runs in another thread: its
\* load_progress may open the file while it is empty, pickle.load then
\* raises EOFError and the default is returned.  The worker thread does
\* nothing else in between, so that read is part of this step.
SaveProgress(current, total, message) ==
    /\ progress_file' = <<Progress(current, total, message)>>
    /\ \E torn \in BOOLEAN :
          polled' = IF torn THEN Observed(polled, DefaultProgress) ELSE polled

-----------------------------------------------------------------------------
\* what the environment may hold under GEMINI_API_KEY
ApiKeys == {None, "", "key"}

\* variant with a seeded fault: the credential is not looked at
ApiKeyNeverMissing(key) == FALSE

\* not self.gemini_api_key
ApiKeyMissing(key) == key = None \/ key = ""

\* the values of requests_per_minute
Rates == 1..MaxRate

\* runners = {FALSE}: process_invoices is called; runners = {TRUE}: the page's
\* button handler has written the first progress (0, len(invoice_files),
\* "Starting processing...") and started run_async_non_blocking
\* pcs = {"unstarted"}: the worker thread is started by the page later
InitAt(batches, keys, rates, runners, pcs) ==
    /\ runner \in runners
    /\ pc \in pcs
    /\ processing_started = runner
    /\ processing_complete = FALSE
    /\ processing_thread = (runner /\ pc # "unstarted")
    /\ thread_starts = IF runner /\ pc # "unstarted" THEN 1 ELSE 0
    /\ current_path = << >>
    /\ selected_file = << >>
    /\ history = << >>
    /\ history_index = -1
    /\ last_click = "none"
    /\ invoice_pc = "new"
    /\ invoice_calls = 0
    /\ invoice_out = << >>
    /\ page = "top"
    /\ shown_kind = "none"
    /\ shown_summary = << >>
    /\ stale = "none"
    /\ stale_count = 0
    /\ stale_left = 0
    /\ processed_count = 0
    /\ total_count = 0
    /\ summary_file = << >>
    /\ complete_file = None
    /\ timer_file = IF runner THEN "started" ELSE None
    /\ polled = << >>
    /\ slots = << >>
    /\ calls = << >>
    /\ puts = << >>
    /\ summary_puts = << >>
    /\ gemini_api_key \in keys
    /\ files \in batches
    /\ progress_file = IF runner
                       THEN <<Progress(0, Len(files), StartingMessage)>>
                       ELSE << >>
    /\ rpm \in rates
    /\ uuids = 0
    /\ batch_id = None
    /\ timestamp = None
    /\ written = {}
    /\ earlier = << >>
    /\ tasks = << >>
    /\ skipped_count = 0
    /\ tpc = << >>
    /\ result = << >>
    /\ elapsed = << >>
    /\ remote = << >>
    /\ s3_key = << >>
    /\ put = << >>
    /\ level = 0
    /\ recent = << >>
    /\ now = 0
    /\ s3 = {}
    /\ summary = EmptyDict
    /\ summary_put = "none"
    /\ returned = EmptyDict

InitWith(batches, keys, rates, runners) == InitAt(batches, keys, rates, runners, {"new"})

\* Batches of every length up to MaxFiles, with and without the credential,
\* under the rate limit that holds back the last task of the longest batch.
Init == InitWith(Inputs, ApiKeys, {MaxRate}, {FALSE})

FairInit == InitWith(FairInputs, {"key"}, Rates, {FALSE})

\* InvoiceBatchProcessor(...): without the credential __init__ raises and
\* process_invoices, which made the call, logs and raises on.  Under the
\* page the worker has written the start time before: save_timer(start_time)
Construct ==
    /\ pc = "new"
    /\ pc' = IF ApiKeyMissing(gemini_api_key) THEN "init_raised" ELSE "idle"
    /\ level' = 0
    /\ timer_file' = IF runner THEN "started" ELSE timer_file
    /\ UNCHANGED <<runner, processed_count, total_count, progress_file, summary_file,
                   complete_file, polled>>
    /\ UNCHANGED historyVars
    /\ UNCHANGED pageVars
    /\ UNCHANGED <<gemini_api_key, uuids, batch_id, timestamp, written, earlier, s3_key,
                   put, files, rpm, tasks, skipped_count, tpc, result, elapsed, remote,
                   recent, now, s3, summary, summary_put, returned>>

\* str(uuid.uuid4()): a value no earlier call gave
Uuid4 == ToString(uuids + 1)

\* process_batch up to the put of the batch start marker: its local
\* variables are new, batch_id and timestamp are taken
StartBatch ==
    /\ uuids' = uuids + 1
    /\ batch_id' = Uuid4
    /\ timestamp' = Strftime(now)
    /\ written' = {}
    /\ tasks' = << >>
    /\ skipped_count' = 0
    /\ tpc' = << >>
    /\ result' = << >>
    /\ elapsed' = << >>
    /\ remote' = << >>
    /\ s3_key' = << >>
    /\ put' = << >>
    /\ summary' = EmptyDict
    /\ summary_put' = "none"
    /\ returned' = EmptyDict
    /\ slots' = << >>
    /\ calls' = << >>
    /\ puts' = << >>
    /\ summary_puts' = << >>
    /\ pc' = "marker"

\* process_batch is called on the processor just constructed
ProcessBatch ==
    /\ pc = "idle"
    /\ StartBatch
    /\ IF runner
       THEN /\ total_count' = Len(files)
            /\ processed_count' = 0
            /\ SaveProgress(0, Len(files), StartingMessage)
            /\ summary_file' = << >>
            /\ complete_file' = None
       ELSE UNCHANGED <<total_count, processed_count, progress_file, polled,
                        summary_file, complete_file>>
    /\ UNCHANGED <<runner, timer_file>>
    /\ UNCHANGED pageVars
    /\ UNCHANGED <<gemini_api_key, earlier, files, rpm, level, recent, now, s3>>

\* process_batch is called a second time, on the same processor and input,
\* after the first call has returned
ProcessBatchAgain ==
    /\ pc = "done"
    /\ earlier = << >>
    /\ earlier' = Append(earlier, [summary |-> returned, written |-> written])
    /\ StartBatch
    /\ UNCHANGED runnerVars
    /\ UNCHANGED pageVars
    /\ UNCHANGED <<gemini_api_key, files, rpm, level, recent, now, s3>>

\* the marker put ended (ok: it stored the object; otherwise the except
\* branch logged it); the loop then creates the tasks and gather is awaited
CreateTasks ==
    /\ tasks' = Eligible(files)
    /\ skipped_count' = Len(files) - Len(Eligible(files))
    /\ tpc' = [i \in 1..Len(Eligible(files)) |-> "waiting"]
    /\ result' = [i \in 1..Len(Eligible(files)) |-> EmptyDict]
    /\ elapsed' = [i \in 1..Len(Eligible(files)) |-> 0]
    /\ remote' = [i \in 1..Len(Eligible(files)) |-> "none"]
    /\ s3_key' = [i \in 1..Len(Eligible(files)) |-> NoKey]
    /\ put' = [i \in 1..Len(Eligible(files)) |-> "none"]
    /\ slots' = [i \in 1..Len(Eligible(files)) |-> 0]
    /\ calls' = [i \in 1..Len(Eligible(files)) |-> 0]
    /\ puts' = [i \in 1..Len(Eligible(files)) |-> 0]
    /\ UNCHANGED summary_puts
    /\ pc' = "gather"

MarkerPutOk ==
    /\ pc = "marker"
    /\ s3' = s3 \cup {BatchStartKey(S3Folder(batch_id, timestamp))}
    /\ written' = written \cup {BatchStartKey(S3Folder(batch_id, timestamp))}
    /\ CreateTasks
    /\ UNCHANGED runnerVars
    /\ UNCHANGED pageVars
    /\ UNCHANGED <<gemini_api_key, uuids, batch_id, timestamp, earlier,
                   files, rpm, level, recent, now, summary, summary_put, returned>>

MarkerPutFail ==
    /\ pc = "marker"
    /\ CreateTasks
    /\ UNCHANGED runnerVars
    /\ UNCHANGED pageVars
    /\ UNCHANGED <<gemini_api_key, uuids, batch_id, timestamp, written, earlier,
                   files, rpm, level, recent, now, s3, summary, summary_put, returned>>

-----------------------------------------------------------------------------
(* One task: _process_and_upload, with _process_single_invoice and           *)
(* _upload_to_s3 inlined, between its awaits                                 *)

FileOf(k) == files[tasks[k]]

\* variant with a seeded fault: the remote call awaited without wait_for
NeverTimedOut(k) == FALSE

\* asyncio.wait_for(..., timeout=120) gave up
TimedOut(k) == elapsed[k] >= TimeoutSeconds

\* The waiters of the limiter are served in the order they arrived, which is
\* the order the tasks were created in.
MayAcquire(k) ==
    /\ tpc[k] = "waiting"
    /\ \A j \in 1..(k - 1) : tpc[j] # "waiting"
    /\ HasCapacity

\* variant with a seeded fault: the task goes on without a slot
SlotNotTaken(n) == n

\* `async with self.rate_limiter`: one more slot taken by the task
SlotTaken(n) == n + 1

\* The task passes `async with self.rate_limiter` and runs to its next await.
\*  - A name stdout cannot encode: the first print naming the file raises
\*    (the one before the remote call, or, after a failed Image.open, the
\*    one before the upload); the except branches that catch it print the
\*    name again, so the exception leaves _process_and_upload.
\*  - Image.open fails: the failure result goes to _upload_to_s3.
\*  - Otherwise the remote call starts under wait_for.
Acquire(k) ==
    /\ pc = "gather"
    /\ k \in DOMAIN tpc
    /\ MayAcquire(k)
    /\ level' = level + WindowSeconds
    /\ recent' = Append(recent, 0)
    /\ slots' = [slots EXCEPT ![k] = SlotTaken(slots[k])]
    /\ IF ~CanPrint(FileOf(k).name)
       THEN /\ tpc' = [tpc EXCEPT ![k] = "raised"]
            /\ UNCHANGED <<result, remote, s3_key, calls, puts>>
       ELSE IF ~CanOpen(FileOf(k).bytes)
       THEN /\ tpc' = [tpc EXCEPT ![k] = "uploading"]
            /\ result' = [result EXCEPT ![k] = ImageOpenError(FileOf(k).name)]
            /\ s3_key' = [s3_key EXCEPT ![k] =
                    S3Key(ImageOpenError(FileOf(k).name),
                          S3Folder(batch_id, timestamp), Strftime(now))]
            /\ puts' = [puts EXCEPT ![k] = puts[k] + 1]
            /\ UNCHANGED <<remote, calls>>
       ELSE /\ tpc' = [tpc EXCEPT ![k] = "calling"]
            /\ remote' = [remote EXCEPT ![k] = "pending"]
            /\ calls' = [calls EXCEPT ![k] = calls[k] + 1]
            /\ UNCHANGED <<result, s3_key, puts>>
    /\ UNCHANGED summary_puts
    /\ UNCHANGED runnerVars
    /\ UNCHANGED pageVars
    /\ UNCHANGED <<gemini_api_key, uuids, batch_id, timestamp, written, earlier,
                   put, files, rpm, pc, tasks, skipped_count, elapsed, now, s3,
                   summary, summary_put, returned>>

\* The remote call ended; what follows runs up to the put: _upload_to_s3
\* reads the clock and makes the key.
CallEnds(k, res, how) ==
    /\ pc = "gather"
    /\ k \in DOMAIN tpc
    /\ tpc[k] = "calling"
    /\ tpc' = [tpc EXCEPT ![k] = "uploading"]
    /\ result' = [result EXCEPT ![k] = res]
    /\ remote' = [remote EXCEPT ![k] = how]
    /\ elapsed' = [elapsed EXCEPT ![k] = 0]
    /\ s3_key' = [s3_key EXCEPT ![k] = S3Key(res, S3Folder(batch_id, timestamp), Strftime(now))]
    /\ puts' = [puts EXCEPT ![k] = puts[k] + 1]
    /\ UNCHANGED <<slots, calls, summary_puts>>
    /\ UNCHANGED runnerVars
    /\ UNCHANGED pageVars
    /\ UNCHANGED <<gemini_api_key, uuids, batch_id, timestamp, written, earlier,
                   put, files, rpm, pc, tasks, skipped_count, level, recent, now, s3,
                   summary, summary_put, returned>>

CallReturns(k) ==
    /\ k \in DOMAIN tpc
    /\ \E text \in Answers(FileOf(k).bytes) :
          CallEnds(k, GeminiSuccess(FileOf(k).name, text), "returned")

CallRaises(k) == CallEnds(k, GeminiError(FileOf(k).name), "raised")

CallTimesOut(k) ==
    /\ k \in DOMAIN tpc
    /\ tpc[k] = "calling"
    /\ TimedOut(k)
    /\ CallEnds(k, GeminiTimeout(FileOf(k).name), "timeout")

\* variant with a seeded fault: the key is not recorded after the put
UploadedNoKey(res, key) == Set(res, "s3_bucket", "bucket")

\* _upload_to_s3 after the put: result["s3_key"], result["s3_bucket"]
Uploaded(res, key) == Set(Set(res, "s3_key", key), "s3_bucket", "bucket")

\* variant with a seeded fault: a failed put turns the item into a failure
UploadFailedFlips(res) == Set(Set(res, "s3_error", "S3 error"), "success", FALSE)

\* the except branch of _upload_to_s3: result["s3_error"]
UploadFailed(res) == Set(res, "s3_error", "S3 error")

\* ProgressReportingProcessor._process_and_upload after the parent's
\* _process_and_upload returned a result (nothing is awaited in between)
ItemReported(k) ==
    /\ IF runner
       THEN /\ processed_count' = processed_count + 1
            /\ SaveProgress(processed_count + 1, total_count,
                    ProcessingMessage(processed_count + 1, total_count, FileOf(k).name))
       ELSE UNCHANGED <<processed_count, progress_file, polled>>
    /\ UNCHANGED <<runner, total_count, summary_file, complete_file, timer_file>>

\* The put of the item's artifact ended: _upload_to_s3 records the key, or
\* its except branch records s3_error; the task returns the result.
PutOk(k) ==
    /\ pc = "gather"
    /\ k \in DOMAIN tpc
    /\ tpc[k] = "uploading"
    /\ s3' = s3 \cup {s3_key[k]}
    /\ written' = written \cup {s3_key[k]}
    /\ result' = [result EXCEPT ![k] = Uploaded(result[k], s3_key[k])]
    /\ put' = [put EXCEPT ![k] = "ok"]
    /\ s3_key' = [s3_key EXCEPT ![k] = NoKey]
    /\ tpc' = [tpc EXCEPT ![k] = "done"]
    /\ ItemReported(k)
    /\ UNCHANGED historyVars
    /\ UNCHANGED pageVars
    /\ UNCHANGED <<gemini_api_key, uuids, batch_id, timestamp, earlier,
                   files, rpm, pc, tasks, skipped_count, elapsed, remote, level,
                   recent, now, summary, summary_put, returned>>

PutFail(k) ==
    /\ pc = "gather"
    /\ k \in DOMAIN tpc
    /\ tpc[k] = "uploading"
    /\ result' = [result EXCEPT ![k] = UploadFailed(result[k])]
    /\ put' = [put EXCEPT ![k] = "failed"]
    /\ s3_key' = [s3_key EXCEPT ![k] = NoKey]
    /\ tpc' = [tpc EXCEPT ![k] = "done"]
    /\ ItemReported(k)
    /\ UNCHANGED historyVars
    /\ UNCHANGED pageVars
    /\ UNCHANGED <<gemini_api_key, uuids, batch_id, timestamp, written, earlier,
                   files, rpm, pc, tasks, skipped_count, elapsed, remote, level,
                   recent, now, s3, summary, summary_put, returned>>

-----------------------------------------------------------------------------
\* variant with a seeded fault: the wait ends when every item has its
\* outcome, with uploads still under way
GatheredEarly == \A k \in DOMAIN tpc : tpc[k] \in {"uploading", "done", "raised"}

\* asyncio.gather(*tasks): every task has returned or raised
Gathered == \A k \in DOMAIN tpc : tpc[k] \in {"done", "raised"}

\* gather ends: with return_exceptions it waits for every task and process_batch
\* runs on to the put of the summary; without, the first exception of a task
\* would leave process_batch.
GatherEnds ==
    /\ pc = "gather"
    /\ IF ~ReturnExceptions /\ \E k \in DOMAIN tpc : tpc[k] = "raised"
       THEN /\ pc' = "raised"
            /\ UNCHANGED summary
       ELSE /\ Gathered
            /\ summary' = CompileSummary(ProcessedResults)
            /\ pc' = "summary_put"
    /\ UNCHANGED runnerVars
    /\ UNCHANGED historyVars
    /\ UNCHANGED pageVars
    /\ UNCHANGED <<gemini_api_key, uuids, batch_id, timestamp, written, earlier, s3_key,
                   put, files, rpm, tasks, skipped_count, tpc, result, elapsed, remote,
                   level, recent, now, s3, summary_put, returned>>

SummaryPutOk ==
    /\ pc = "summary_put"
    /\ s3' = s3 \cup {SummaryKey(S3Folder(batch_id, timestamp))}
    /\ written' = written \cup {SummaryKey(S3Folder(batch_id, timestamp))}
    /\ summary_put' = "ok"
    /\ summary_puts' = Append(summary_puts, summary)
    /\ returned' = ReturnValue(summary, TRUE)
    /\ pc' = "done"
    /\ UNCHANGED runnerVars
    /\ UNCHANGED <<slots, calls, puts>>
    /\ UNCHANGED pageVars
    /\ UNCHANGED <<gemini_api_key, uuids, batch_id, timestamp, earlier, s3_key,
                   put, files, rpm, tasks, skipped_count, tpc, result, elapsed, remote,
                   level, recent, now, summary>>

SummaryPutFail ==
    /\ pc = "summary_put"
    /\ summary_put' = "failed"
    /\ summary_puts' = Append(summary_puts, summary)
    /\ returned' = ReturnValue(summary, FALSE)
    /\ pc' = "done"
    /\ UNCHANGED runnerVars
    /\ UNCHANGED <<slots, calls, puts>>
    /\ UNCHANGED pageVars
    /\ UNCHANGED <<gemini_api_key, uuids, batch_id, timestamp, written, earlier, s3_key,
                   put, files, rpm, tasks, skipped_count, tpc, result, elapsed, remote,
                   level, recent, now, s3, summary>>

-----------------------------------------------------------------------------
\* TickSeconds pass.  Only a task that waits for the limiter or for the
\* remote call will read a clock (the limiter's, wait_for's, the one behind
\* timestamp_short when the call has ended), so time is counted while there
\* is such a task.
\* The event loop runs what is ready before it sleeps: no time passes while
\* a waiter of the limiter can go on or a wait_for timer is due.
\* The limiter reads its clock only for a waiter (_leak is called from
\* has_capacity): with no task waiting, _level stays as the last reading
\* left it, and so do the ages counted from that reading.
Aged(ages) == [i \in 1..Len(ages) |-> ages[i] + TickSeconds]
InWindow(age) == age < WindowSeconds

Tick ==
    /\ pc = "gather"
    /\ \E k \in DOMAIN tpc : tpc[k] \in {"waiting", "calling"}
    /\ \A k \in DOMAIN tpc : ~MayAcquire(k)
    /\ \A k \in DOMAIN tpc : ~(tpc[k] = "calling" /\ TimedOut(k))
    /\ now' = Min(now + TickSeconds, WindowSeconds)
    /\ IF \E k \in DOMAIN tpc : tpc[k] = "waiting"
       THEN /\ level' = Leak(level, TickSeconds)
            /\ recent' = SelectSeq(Aged(recent), InWindow)
       ELSE UNCHANGED <<level, recent>>
    /\ elapsed' = [k \in DOMAIN elapsed |->
            IF tpc[k] = "calling"
            THEN Min(elapsed[k] + TickSeconds, TimeoutSeconds)
            ELSE elapsed[k]]
    /\ UNCHANGED runnerVars
    /\ UNCHANGED historyVars
    /\ UNCHANGED pageVars
    /\ UNCHANGED <<gemini_api_key, uuids, batch_id, timestamp, written, earlier, s3_key,
                   put, files, rpm, pc, tasks, skipped_count, tpc, result, remote, s3,
                   summary, summary_put, returned>>

-----------------------------------------------------------------------------
TaskIds == 1..MaxFiles

Next ==
    \/ Construct
    \/ ProcessBatch
    \/ MarkerPutOk
    \/ MarkerPutFail
    \/ \E k \in TaskIds : Acquire(k)
    \/ \E k \in TaskIds : CallReturns(k)
    \/ \E k \in TaskIds : CallRaises(k)
    \/ \E k \in TaskIds : CallTimesOut(k)
    \/ \E k \in TaskIds : PutOk(k)
    \/ \E k \in TaskIds : PutFail(k)
    \/ GatherEnds
    \/ SummaryPutOk
    \/ SummaryPutFail
    \/ Tick

Spec == Init /\ [][Next]_vars

\* One processor, process_batch called on it twice with the same input.
RunsInit == InitWith(BatchesOf(FileKinds, Min(MaxRunFiles, MaxFiles)), {"key"}, {MaxRate}, {FALSE})

RunsNext == Next \/ ProcessBatchAgain

\* One call, files of every kind: also an image for which the remote
\* service answers with no text or with white space only.
AnswersInit ==
    InitWith(BatchesOf(AllKinds, Min(MaxRunFiles, MaxFiles)), {"key"}, {MaxRate}, {FALSE})

AnswersSpec == AnswersInit /\ [][Next]_vars

\* One call on files that share their base name.
TwinInit ==
    InitWith(BatchesOf({PngFile, JpgFile}, Min(MaxTwinFiles, MaxFiles)), {"key"},
             {MaxRate}, {FALSE})

TwinSpec == TwinInit /\ [][Next]_vars

RunsSpec == RunsInit /\ [][RunsNext]_vars

-----------------------------------------------------------------------------
(* streamlit_runner.py: the batch in the worker thread, the page polling     *)

\* requests_per_sec=25 of ProgressReportingProcessor, which the parent
\* takes as requests_per_minute
RunnerRate == 25

\* the page starts the batch only for a non-empty upload and with the
\* credential in the environment
RunnerInit ==
    InitWith(BatchesOf(FileKinds, MaxRunnerFiles) \ {<< >>}, {"key"}, {RunnerRate}, {TRUE})

\* _run_and_capture after `await coro`: save_timer(start_time, end_time)
SaveEndTime ==
    /\ runner
    /\ pc = "done"
    /\ timer_file' = "ended"
    /\ pc' = "timed"
    /\ UNCHANGED <<runner, processed_count, total_count, progress_file, summary_file,
                   complete_file, polled>>
    /\ UNCHANGED historyVars
    /\ UNCHANGED pageVars
    /\ UNCHANGED <<gemini_api_key, uuids, batch_id, timestamp, written, earlier, s3_key,
                   put, files, rpm, tasks, skipped_count, tpc, result, elapsed, remote,
                   level, recent, now, s3, summary, summary_put, returned>>

\* variant with a seeded fault: save_summary leaves no file
SavedNothing(res) == << >>

\* what SUMMARY_FILE holds after save_summary(res)
SavedSummary(res) == <<res>>

\* _run_and_capture: save_summary(result)
SaveSummary ==
    /\ runner
    /\ pc = "timed"
    /\ summary_file' = SavedSummary(returned)
    /\ pc' = "saved"
    /\ UNCHANGED <<runner, processed_count, total_count, progress_file, complete_file,
                   timer_file, polled>>
    /\ UNCHANGED historyVars
    /\ UNCHANGED pageVars
    /\ UNCHANGED <<gemini_api_key, uuids, batch_id, timestamp, written, earlier, s3_key,
                   put, files, rpm, tasks, skipped_count, tpc, result, elapsed, remote,
                   level, recent, now, s3, summary, summary_put, returned>>

\* _run_and_capture: the completion marker, open(COMPLETE_FILE, "w") and
\* f.write("complete")
Capture ==
    /\ runner
    /\ pc = "saved"
    /\ complete_file' = "complete"
    /\ pc' = "captured"
    /\ UNCHANGED <<runner, processed_count, total_count, progress_file, summary_file,
                   timer_file, polled>>
    /\ UNCHANGED historyVars
    /\ UNCHANGED pageVars
    /\ UNCHANGED <<gemini_api_key, uuids, batch_id, timestamp, written, earlier, s3_key,
                   put, files, rpm, tasks, skipped_count, tpc, result, elapsed, remote,
                   level, recent, now, s3, summary, summary_put, returned>>

\* _run_and_capture: save_progress(result.get('total_processed', 0),
\* result.get('total_files', 0), "Processing complete!")
SaveFinal ==
    /\ runner
    /\ pc = "captured"
    /\ SaveProgress(Get(returned, "total_processed", 0),
                    Get(returned, "total_files", 0), CompleteMessage)
    /\ pc' = "finished"
    /\ UNCHANGED <<runner, processed_count, total_count, summary_file, complete_file,
                   timer_file>>
    /\ UNCHANGED historyVars
    /\ UNCHANGED pageVars
    /\ UNCHANGED <<gemini_api_key, uuids, batch_id, timestamp, written, earlier, s3_key,
                   put, files, rpm, tasks, skipped_count, tpc, result, elapsed, remote,
                   level, recent, now, s3, summary, summary_put, returned>>

\* the page, while processing: progress = load_progress(), between two saves
Poll ==
    /\ runner
    /\ polled' = Observed(polled, LoadProgress(progress_file))
    /\ UNCHANGED <<runner, processed_count, total_count, progress_file, summary_file,
                   complete_file, timer_file>>
    /\ UNCHANGED historyVars
    /\ UNCHANGED pageVars
    /\ UNCHANGED <<gemini_api_key, uuids, batch_id, timestamp, written, earlier, s3_key,
                   put, files, rpm, pc, tasks, skipped_count, tpc, result, elapsed,
                   remote, level, recent, now, s3, summary, summary_put, returned>>

RunnerNext == Next \/ SaveEndTime \/ SaveSummary \/ Capture \/ SaveFinal \/ Poll

RunnerSpec == RunnerInit /\ [][RunnerNext]_vars

-----------------------------------------------------------------------------
(* streamlit_runner.py: the runs of the page's script, the clicks of its     *)
(* user, and the worker thread a click leaves behind: run_async_non_blocking *)
(* starts a daemon thread that nothing stops, and every worker writes the    *)
(* same files.                                                               *)

\* "Error" in progress_data.get('message', '')
MentionsError(message) == \E i \in DOMAIN message : message[i] \in {"Error", "Error: "}

\* the items of the running worker that will still report their completion
ToReport ==
    IF pc \in {"unstarted", "new", "idle", "marker"}
    THEN Cardinality({i \in 1..Len(files) :
                         IsImage(files[i].type) /\ CanPrint(files[i].name)})
    ELSE Cardinality({k \in DOMAIN tpc :
                         /\ tpc[k] \in {"waiting", "calling", "uploading"}
                         /\ CanPrint(FileOf(k).name)})

\* the summary of the worker left behind, as far as the page reads it
StaleSummary ==
    [batch_id |-> "earlier", total_files |-> Len(files),
     total_processed |-> Len(Eligible(files))]

\* reset_processing_state: the session state, then the four files
ResetSession ==
    /\ processing_complete' = FALSE
    /\ processing_thread' = FALSE
    /\ thread_starts' = 0
    /\ summary_file' = << >>
    /\ complete_file' = None
    /\ shown_kind' = "none"
    /\ shown_summary' = << >>
    /\ polled' = << >>
    /\ page' = "top"

\* the Reset button: reset_processing_state() and st.rerun(); the worker
\* thread runs on
ResetClick ==
    /\ runner
    /\ page = "top"
    /\ stale = "none"
    /\ processing_started
    /\ ResetSession
    /\ processing_started' = FALSE
    /\ progress_file' = << >>
    /\ timer_file' = None
    /\ UNCHANGED <<runner, processed_count, total_count, stale, stale_count, stale_left>>
    /\ UNCHANGED browserVars
    /\ UNCHANGED singleVars
    /\ UNCHANGED historyVars
    /\ UNCHANGED <<gemini_api_key, uuids, batch_id, timestamp, written, earlier, s3_key,
                   put, files, rpm, pc, tasks, skipped_count, tpc, result, elapsed,
                   remote, level, recent, now, s3, summary, summary_put, returned>>

\* the Process Invoices button, clicked (again) while the worker of an
\* earlier click is running: reset_processing_state(), the start time, the first progress,
\* processing_started, st.rerun().  The earlier worker is left behind; the
\* worker of this click is started by the next run of the page.
ProcessClick ==
    /\ runner
    /\ page = "top"
    /\ stale = "none"
    /\ pc \notin {"unstarted", "finished"}
    /\ stale' = IF pc \in {"new", "idle"} THEN "starting"
                ELSE IF pc = "captured" THEN "captured"
                ELSE "running"
    /\ stale_count' = processed_count
    /\ stale_left' = ToReport
    /\ ResetSession
    /\ processing_started' = TRUE
    /\ timer_file' = "started"
    /\ progress_file' = <<Progress(0, Len(files), StartingMessage)>>
    /\ pc' = "unstarted"
    /\ batch_id' = None
    /\ timestamp' = None
    /\ written' = {}
    /\ tasks' = << >>
    /\ skipped_count' = 0
    /\ tpc' = << >>
    /\ result' = << >>
    /\ elapsed' = << >>
    /\ remote' = << >>
    /\ s3_key' = << >>
    /\ put' = << >>
    /\ level' = 0
    /\ recent' = << >>
    /\ summary' = EmptyDict
    /\ summary_put' = "none"
    /\ returned' = EmptyDict
    /\ processed_count' = 0
    /\ total_count' = 0
    /\ slots' = << >>
    /\ calls' = << >>
    /\ puts' = << >>
    /\ summary_puts' = << >>
    /\ UNCHANGED browserVars
    /\ UNCHANGED singleVars
    /\ UNCHANGED <<runner, gemini_api_key, uuids, earlier, files, rpm, now, s3>>

\* a run of the script reaches the status column:
\* processing_complete = os.path.exists(COMPLETE_FILE)
PageCheck ==
    /\ runner
    /\ page = "top"
    /\ page' = "checked"
    /\ processing_complete' =
          IF complete_file # None /\ processing_started THEN TRUE ELSE processing_complete
    /\ UNCHANGED <<processing_started, processing_thread, shown_kind, shown_summary,
                   stale, stale_count, stale_left, thread_starts>>
    /\ UNCHANGED browserVars
    /\ UNCHANGED singleVars
    /\ UNCHANGED runnerVars
    /\ UNCHANGED historyVars
    /\ UNCHANGED <<gemini_api_key, uuids, batch_id, timestamp, written, earlier, s3_key,
                   put, files, rpm, pc, tasks, skipped_count, tpc, result, elapsed,
                   remote, level, recent, now, s3, summary, summary_put, returned>>

\* variant with a seeded fault: the session does not keep the thread
ThreadNotKept == FALSE

\* bool(st.session_state.processing_thread) once it holds the Thread that
\* run_async_non_blocking returned
StartedThread == TRUE

\* the run goes through the branch of a batch under way: load_progress, the
\* worker thread started if the session holds none, sleep and st.rerun()
PagePoll ==
    /\ runner
    /\ page = "checked"
    /\ processing_started /\ ~processing_complete
    /\ polled' = Observed(polled, LoadProgress(progress_file))
    /\ processing_thread' = IF ~processing_thread THEN StartedThread ELSE processing_thread
    /\ thread_starts' = IF ~processing_thread THEN thread_starts + 1 ELSE thread_starts
    /\ pc' = IF ~processing_thread /\ pc = "unstarted" THEN "new" ELSE pc
    /\ page' = "top"
    /\ UNCHANGED <<processing_started, processing_complete, shown_kind, shown_summary,
                   stale, stale_count, stale_left>>
    /\ UNCHANGED browserVars
    /\ UNCHANGED singleVars
    /\ UNCHANGED <<runner, processed_count, total_count, progress_file, summary_file,
                   complete_file, timer_file>>
    /\ UNCHANGED historyVars
    /\ UNCHANGED <<gemini_api_key, uuids, batch_id, timestamp, written, earlier, s3_key,
                   put, files, rpm, tasks, skipped_count, tpc, result, elapsed,
                   remote, level, recent, now, s3, summary, summary_put, returned>>

\* the run goes through the results view: load_progress, the message
\* searched for "Error", load_summary
PageResults ==
    /\ runner
    /\ page = "checked"
    /\ processing_complete
    /\ IF MentionsError(LoadProgress(progress_file).message)
       THEN /\ shown_kind' = "error"
            /\ shown_summary' = << >>
            /\ processing_started' = FALSE
       ELSE /\ shown_kind' = "complete"
            /\ shown_summary' = summary_file
            /\ UNCHANGED processing_started
    /\ page' = "top"
    /\ UNCHANGED <<processing_complete, processing_thread, stale, stale_count, stale_left,
                   thread_starts>>
    /\ UNCHANGED browserVars
    /\ UNCHANGED singleVars
    /\ UNCHANGED runnerVars
    /\ UNCHANGED historyVars
    /\ UNCHANGED <<gemini_api_key, uuids, batch_id, timestamp, written, earlier, s3_key,
                   put, files, rpm, pc, tasks, skipped_count, tpc, result, elapsed,
                   remote, level, recent, now, s3, summary, summary_put, returned>>

\* the run finds nothing started and nothing complete
PageRests ==
    /\ runner
    /\ page = "checked"
    /\ ~processing_started /\ ~processing_complete
    /\ page' = "top"
    /\ UNCHANGED <<processing_started, processing_complete, processing_thread,
                   shown_kind, shown_summary, stale, stale_count, stale_left,
                   thread_starts>>
    /\ UNCHANGED browserVars
    /\ UNCHANGED singleVars
    /\ UNCHANGED runnerVars
    /\ UNCHANGED historyVars
    /\ UNCHANGED <<gemini_api_key, uuids, batch_id, timestamp, written, earlier, s3_key,
                   put, files, rpm, pc, tasks, skipped_count, tpc, result, elapsed,
                   remote, level, recent, now, s3, summary, summary_put, returned>>

\* what a step of the worker left behind leaves alone
StaleLeaves ==
    /\ UNCHANGED <<processing_started, processing_complete, processing_thread, page,
                   shown_kind, shown_summary, thread_starts>>
    /\ UNCHANGED browserVars
    /\ UNCHANGED singleVars
    /\ UNCHANGED <<runner, processed_count, total_count>>
    /\ UNCHANGED historyVars
    /\ UNCHANGED <<gemini_api_key, uuids, batch_id, timestamp, written, earlier, s3_key,
                   put, files, rpm, pc, tasks, skipped_count, tpc, result, elapsed,
                   remote, level, recent, now, s3, summary, summary_put, returned>>

\* the worker left behind gets to process_invoices_with_progress and
\* process_batch: its start time, the marker and the summary removed, the
\* first progress
StaleStarts ==
    /\ stale = "starting"
    /\ stale' = "running"
    /\ timer_file' = "started"
    /\ summary_file' = << >>
    /\ complete_file' = None
    /\ SaveProgress(0, Len(files), StartingMessage)
    /\ UNCHANGED <<stale_count, stale_left>>
    /\ StaleLeaves

\* an item of the worker left behind completes
StaleReports ==
    /\ stale = "running"
    /\ stale_left > 0
    /\ stale_left' = stale_left - 1
    /\ stale_count' = stale_count + 1
    /\ \E i \in 1..Len(files) :
          /\ IsImage(files[i].type) /\ CanPrint(files[i].name)
          /\ SaveProgress(stale_count + 1, Len(files),
                  ProcessingMessage(stale_count + 1, Len(files), files[i].name))
    /\ UNCHANGED <<stale, summary_file, complete_file, timer_file>>
    /\ StaleLeaves

\* the worker left behind leaves `await coro`: its end time, its summary,
\* its marker
StaleCapture ==
    /\ stale = "running"
    /\ stale_left = 0
    /\ stale' = "captured"
    /\ timer_file' = "ended"
    /\ summary_file' = <<StaleSummary>>
    /\ complete_file' = "complete"
    /\ UNCHANGED <<stale_count, stale_left, progress_file, polled>>
    /\ StaleLeaves

\* the worker left behind writes its last progress and ends
StaleSaveFinal ==
    /\ stale = "captured"
    /\ stale' = "finished"
    /\ SaveProgress(StaleSummary.total_processed, StaleSummary.total_files,
                    CompleteMessage)
    /\ UNCHANGED <<stale_count, stale_left, summary_file, complete_file, timer_file>>
    /\ StaleLeaves

\* the page after a click on Process Invoices, its worker not yet started
PageInit ==
    InitAt(BatchesOf(FileKinds, Min(MaxRunFiles, MaxFiles)) \ {<< >>}, {"key"},
           {RunnerRate}, {TRUE}, {"unstarted"})

PageNext ==
    \/ Next
    \/ SaveEndTime
    \/ SaveSummary
    \/ Capture
    \/ SaveFinal
    \/ ResetClick
    \/ ProcessClick
    \/ PageCheck
    \/ PagePoll
    \/ PageResults
    \/ PageRests
    \/ StaleStarts
    \/ StaleReports
    \/ StaleCapture
    \/ StaleSaveFinal

PageSpec == PageInit /\ [][PageNext]_vars

-----------------------------------------------------------------------------
(* run_async_non_blocking: the except branch of _run_and_capture, and one    *)
(* worker under the runs of the page, whatever environment it finds          *)

\* f"Error: {str(e)}" for the exception of __init__
ErrorMessage == <<"Error: ", "GEMINI_API_KEY environment variable is required">>

\* `await coro` raised: save_progress(0, 0, f"Error: {str(e)}")
ErrorSave ==
    /\ runner
    /\ pc \in {"init_raised", "raised"}
    /\ SaveProgress(0, 0, ErrorMessage)
    /\ pc' = "error_saved"
    /\ UNCHANGED <<runner, processed_count, total_count, summary_file, complete_file,
                   timer_file>>
    /\ UNCHANGED historyVars
    /\ UNCHANGED pageVars
    /\ UNCHANGED <<gemini_api_key, uuids, batch_id, timestamp, written, earlier, s3_key,
                   put, files, rpm, tasks, skipped_count, tpc, result, elapsed, remote,
                   level, recent, now, s3, summary, summary_put, returned>>

\* the error marker: open(COMPLETE_FILE, "w") and f.write("error")
ErrorMark ==
    /\ runner
    /\ pc = "error_saved"
    /\ complete_file' = "error"
    /\ pc' = "errored"
    /\ UNCHANGED <<runner, processed_count, total_count, progress_file, summary_file,
                   timer_file, polled>>
    /\ UNCHANGED historyVars
    /\ UNCHANGED pageVars
    /\ UNCHANGED <<gemini_api_key, uuids, batch_id, timestamp, written, earlier, s3_key,
                   put, files, rpm, tasks, skipped_count, tpc, result, elapsed, remote,
                   level, recent, now, s3, summary, summary_put, returned>>

\* the page after a click on Process Invoices, its worker not yet started;
\* the worker reads the environment when it constructs the processor
WorkerInit ==
    InitAt(BatchesOf(FileKinds, Min(MaxRunFiles, MaxFiles)) \ {<< >>}, ApiKeys,
           {RunnerRate}, {TRUE}, {"unstarted"})

WorkerNext ==
    \/ Next
    \/ SaveEndTime
    \/ SaveSummary
    \/ Capture
    \/ SaveFinal
    \/ ErrorSave
    \/ ErrorMark
    \/ PageCheck
    \/ PagePoll
    \/ PageResults

WorkerSpec == WorkerInit /\ [][WorkerNext]_vars

\* one worker under the runs of the page, the credential in the environment,
\* the uploaded images named as the user pleases
NamedInit ==
    InitAt(BatchesOf({PngFile, ErrorNamedFile}, Min(MaxRunFiles, MaxFiles)) \ {<< >>},
           {"key"}, {RunnerRate}, {TRUE}, {"unstarted"})

NamedNext ==
    \/ Next
    \/ SaveEndTime
    \/ SaveSummary
    \/ Capture
    \/ SaveFinal
    \/ PageCheck
    \/ PagePoll
    \/ PageResults

NamedSpec == NamedInit /\ [][NamedNext]_vars

\* the page with its clicks over workers that meet no failure: the service
\* answers every call and the bucket takes every put
ClickInit ==
    InitAt(BatchesOf({PngFile, ErrorNamedFile}, Min(MaxRunFiles, MaxFiles)) \ {<< >>},
           {"key"}, {RunnerRate}, {TRUE}, {"unstarted"})

ClickNext ==
    \/ Construct
    \/ ProcessBatch
    \/ MarkerPutOk
    \/ \E k \in TaskIds : Acquire(k)
    \/ \E k \in TaskIds : CallReturns(k)
    \/ \E k \in TaskIds : PutOk(k)
    \/ GatherEnds
    \/ SummaryPutOk
    \/ SaveEndTime
    \/ SaveSummary
    \/ Capture
    \/ SaveFinal
    \/ ResetClick
    \/ ProcessClick
    \/ PageCheck
    \/ PagePoll
    \/ PageResults
    \/ PageRests
    \/ StaleStarts
    \/ StaleReports
    \/ StaleCapture
    \/ StaleSaveFinal

ClickSpec == ClickInit /\ [][ClickNext]_vars

-----------------------------------------------------------------------------
(* pages/1_S3_Browser.py: the folder shown, and the history of the folders   *)
(* shown, under the buttons of the page.  A path is the sequence of its      *)
(* folder names: "a/b/" is <<"a", "b">>, the root "" is << >>.               *)

\* the longest history followed
MaxHistory == 4

\* the folders of the bucket (the CommonPrefixes that list_objects finds)
Folders == { << >>, <<"a">>, <<"a", "b">>, <<"c">> }

\* no file selected
NoFile == << >>

\* h[i] of a Python list: i counts from 0, a negative i from the end
At(h, i) == IF i < 0 THEN h[Len(h) + i + 1] ELSE h[i + 1]

\* the folders list_objects shows under a path: one "Open Folder" each
Children(path) ==
    {f \in Folders : Len(f) = Len(path) + 1 /\ SubSeq(f, 1, Len(path)) = path}

\* the targets of the breadcrumb: Root and path_so_far for every part
Crumbs(path) == {SubSeq(path, 1, n) : n \in 0..Len(path)}

\* history[:history_index + 1] when the index is not at the end
CutHistory ==
    IF history_index < Len(history) - 1
    THEN SubSeq(history, 1, history_index + 1)
    ELSE history

\* variant with a seeded fault: the index is left where it was
IndexLeft(h) == history_index

\* len(st.session_state.history) - 1
LastIndex(h) == Len(h) - 1

\* the Back button, enabled unless history_index <= 0
Back ==
    /\ ~(history_index <= 0)
    /\ history_index' = history_index - 1
    /\ current_path' = At(history, history_index - 1)
    /\ last_click' = "back"
    /\ UNCHANGED <<history, selected_file>>
    /\ UNCHANGED <<processing_started, processing_complete, processing_thread, page,
                   shown_kind, shown_summary, stale, stale_count, stale_left,
                   thread_starts>>
    /\ UNCHANGED singleVars
    /\ UNCHANGED runnerVars
    /\ UNCHANGED historyVars
    /\ UNCHANGED <<gemini_api_key, uuids, batch_id, timestamp, written, earlier, s3_key,
                   put, files, rpm, pc, tasks, skipped_count, tpc, result, elapsed,
                   remote, level, recent, now, s3, summary, summary_put, returned>>

\* the Forward button, enabled unless history_index >= len(history) - 1
Forward ==
    /\ ~(history_index >= Len(history) - 1)
    /\ history_index' = history_index + 1
    /\ current_path' = At(history, history_index + 1)
    /\ last_click' = "forward"
    /\ UNCHANGED <<history, selected_file>>
    /\ UNCHANGED <<processing_started, processing_complete, processing_thread, page,
                   shown_kind, shown_summary, stale, stale_count, stale_left,
                   thread_starts>>
    /\ UNCHANGED singleVars
    /\ UNCHANGED runnerVars
    /\ UNCHANGED historyVars
    /\ UNCHANGED <<gemini_api_key, uuids, batch_id, timestamp, written, earlier, s3_key,
                   put, files, rpm, pc, tasks, skipped_count, tpc, result, elapsed,
                   remote, level, recent, now, s3, summary, summary_put, returned>>

\* the Home button
Home ==
    /\ Len(CutHistory) < MaxHistory
    /\ IF current_path # << >>
       THEN /\ history' = Append(CutHistory, << >>)
            /\ history_index' = LastIndex(history')
       ELSE UNCHANGED <<history, history_index>>
    /\ current_path' = << >>
    /\ selected_file' = NoFile
    /\ last_click' = "home"
    /\ UNCHANGED <<processing_started, processing_complete, processing_thread, page,
                   shown_kind, shown_summary, stale, stale_count, stale_left,
                   thread_starts>>
    /\ UNCHANGED singleVars
    /\ UNCHANGED runnerVars
    /\ UNCHANGED historyVars
    /\ UNCHANGED <<gemini_api_key, uuids, batch_id, timestamp, written, earlier, s3_key,
                   put, files, rpm, pc, tasks, skipped_count, tpc, result, elapsed,
                   remote, level, recent, now, s3, summary, summary_put, returned>>

\* navigate_to_folder(folder_path), from a breadcrumb or an "Open Folder"
NavigateToFolder(folder_path) ==
    /\ Len(CutHistory) < MaxHistory
    /\ IF current_path # folder_path
       THEN /\ history' = Append(CutHistory, folder_path)
            /\ history_index' = LastIndex(history')
       ELSE UNCHANGED <<history, history_index>>
    /\ current_path' = folder_path
    /\ selected_file' = NoFile
    /\ last_click' = "navigate"
    /\ UNCHANGED <<processing_started, processing_complete, processing_thread, page,
                   shown_kind, shown_summary, stale, stale_count, stale_left,
                   thread_starts>>
    /\ UNCHANGED singleVars
    /\ UNCHANGED runnerVars
    /\ UNCHANGED historyVars
    /\ UNCHANGED <<gemini_api_key, uuids, batch_id, timestamp, written, earlier, s3_key,
                   put, files, rpm, pc, tasks, skipped_count, tpc, result, elapsed,
                   remote, level, recent, now, s3, summary, summary_put, returned>>

\* the View button of a file of the folder shown
ViewFile ==
    /\ selected_file' = current_path \o <<"x.md">>
    /\ last_click' = "view"
    /\ UNCHANGED <<current_path, history, history_index>>
    /\ UNCHANGED <<processing_started, processing_complete, processing_thread, page,
                   shown_kind, shown_summary, stale, stale_count, stale_left,
                   thread_starts>>
    /\ UNCHANGED singleVars
    /\ UNCHANGED runnerVars
    /\ UNCHANGED historyVars
    /\ UNCHANGED <<gemini_api_key, uuids, batch_id, timestamp, written, earlier, s3_key,
                   put, files, rpm, pc, tasks, skipped_count, tpc, result, elapsed,
                   remote, level, recent, now, s3, summary, summary_put, returned>>

\* the browser page alone: no batch is processed
BrowserInit == InitWith({<< >>}, {"key"}, {MaxRate}, {FALSE})

BrowserNext ==
    \/ Back
    \/ Forward
    \/ Home
    \/ \E folder_path \in Crumbs(current_path) \cup Children(current_path) :
          NavigateToFolder(folder_path)
    \/ ViewFile

BrowserSpec == BrowserInit /\ [][BrowserNext]_vars

-----------------------------------------------------------------------------
(* process_invoice.py: process_invoice(api_key, file_content, file_type) on  *)
(* the one file of `files`.  A returned string is the sequence of its parts. *)

\* a file that is no image
PdfFile == [bytes |-> "junk", type |-> <<"application", "pdf">>, name |-> <<"scan", ".pdf">>]

SingleKinds == AllKinds \cup {JpgFile, ErrorNamedFile, PdfFile}

\* "Error: Unsupported file format. Only JPG and PNG files are supported."
UnsupportedText ==
    <<"Error", ": Unsupported file format. Only JPG and PNG files are supported.">>

\* f"Error during processing: {str(e)}"
ProcessingErrorText(e) == <<"Error", " during processing: ", e>>

\* what generate_content and response.text raise
RemoteFailures == {"generate_content failed", "response has no text"}

\* read_file: None for a type that is no image, else Image.open, which
\* raises on bytes it cannot identify
ReadFile(file_bytes, file_type) ==
    IF ~IsImage(file_type) THEN None
    ELSE IF CanOpen(file_bytes) THEN "content"
    ELSE "raises"

\* genai.configure(api_key=api_key)
InvoiceConfigure ==
    /\ invoice_pc = "new"
    /\ invoice_pc' = "configured"
    /\ UNCHANGED <<invoice_calls, invoice_out>>
    /\ UNCHANGED <<processing_started, processing_complete, processing_thread, page,
                   shown_kind, shown_summary, stale, stale_count, stale_left,
                   thread_starts>>
    /\ UNCHANGED browserVars
    /\ UNCHANGED runnerVars
    /\ UNCHANGED historyVars
    /\ UNCHANGED <<gemini_api_key, uuids, batch_id, timestamp, written, earlier, s3_key,
                   put, files, rpm, pc, tasks, skipped_count, tpc, result, elapsed,
                   remote, level, recent, now, s3, summary, summary_put, returned>>

\* content = read_file(...), the early return, and generate_content called
InvoiceRead ==
    /\ invoice_pc = "configured"
    /\ LET content == ReadFile(files[1].bytes, files[1].type)
       IN  IF content = "raises"
           THEN /\ invoice_pc' = "raised"
                /\ UNCHANGED <<invoice_calls, invoice_out>>
           ELSE IF content = None
           THEN /\ invoice_pc' = "returned"
                /\ invoice_out' = UnsupportedText
                /\ UNCHANGED invoice_calls
           ELSE /\ invoice_pc' = "calling"
                /\ invoice_calls' = invoice_calls + 1
                /\ UNCHANGED invoice_out
    /\ UNCHANGED <<processing_started, processing_complete, processing_thread, page,
                   shown_kind, shown_summary, stale, stale_count, stale_left,
                   thread_starts>>
    /\ UNCHANGED browserVars
    /\ UNCHANGED runnerVars
    /\ UNCHANGED historyVars
    /\ UNCHANGED <<gemini_api_key, uuids, batch_id, timestamp, written, earlier, s3_key,
                   put, files, rpm, pc, tasks, skipped_count, tpc, result, elapsed,
                   remote, level, recent, now, s3, summary, summary_put, returned>>

\* the remote call answered: response.text.strip() is returned
InvoiceAnswered ==
    /\ invoice_pc = "calling"
    /\ \E text \in Answers(files[1].bytes) : invoice_out' = Strip(text)
    /\ invoice_pc' = "returned"
    /\ UNCHANGED invoice_calls
    /\ UNCHANGED <<processing_started, processing_complete, processing_thread, page,
                   shown_kind, shown_summary, stale, stale_count, stale_left,
                   thread_starts>>
    /\ UNCHANGED browserVars
    /\ UNCHANGED runnerVars
    /\ UNCHANGED historyVars
    /\ UNCHANGED <<gemini_api_key, uuids, batch_id, timestamp, written, earlier, s3_key,
                   put, files, rpm, pc, tasks, skipped_count, tpc, result, elapsed,
                   remote, level, recent, now, s3, summary, summary_put, returned>>

\* generate_content or response.text raised: the except branch
InvoiceFailed ==
    /\ invoice_pc = "calling"
    /\ \E e \in RemoteFailures : invoice_out' = ProcessingErrorText(e)
    /\ invoice_pc' = "returned"
    /\ UNCHANGED invoice_calls
    /\ UNCHANGED <<processing_started, processing_complete, processing_thread, page,
                   shown_kind, shown_summary, stale, stale_count, stale_left,
                   thread_starts>>
    /\ UNCHANGED browserVars
    /\ UNCHANGED runnerVars
    /\ UNCHANGED historyVars
    /\ UNCHANGED <<gemini_api_key, uuids, batch_id, timestamp, written, earlier, s3_key,
                   put, files, rpm, pc, tasks, skipped_count, tpc, result, elapsed,
                   remote, level, recent, now, s3, summary, summary_put, returned>>

\* one call of process_invoice, on any file and with any key
SingleInit == InitWith([1..1 -> SingleKinds], ApiKeys, {MaxRate}, {FALSE})

SingleNext ==
    \/ InvoiceConfigure
    \/ InvoiceRead
    \/ InvoiceAnswered
    \/ InvoiceFailed

SingleSpec == SingleInit /\ [][SingleNext]_vars

\* "Processing capacity: 10 invoices per minute due to API rate limits"
UiRate == 10

\* Batches of images under the page, followed up to the moment the first
\* remote call answers: the tasks pass the limiter and wait for the service.
BurstInit ==
    InitWith({[i \in 1..n |-> PngFile] : n \in 1..MaxBurstFiles}, {"key"},
             {RunnerRate}, {TRUE})

BurstNext ==
    \/ Construct
    \/ ProcessBatch
    \/ MarkerPutOk
    \/ MarkerPutFail
    \/ \E k \in 1..MaxBurstFiles : Acquire(k)
    \/ Tick

BurstSpec == BurstInit /\ [][BurstNext]_vars

\* What the event loop and the clock guarantee: a coroutine that can run does
\* run, a timer that is due fires, time passes.  Nothing is assumed of the
\* remote service or of the bucket: they may never answer.
FairSpec ==
    /\ FairInit
    /\ [][Next]_vars
    /\ WF_vars(Construct)
    /\ WF_vars(ProcessBatch)
    /\ WF_vars(GatherEnds)
    /\ WF_vars(Tick)
    /\ \A k \in TaskIds : WF_vars(Acquire(k))
    /\ \A k \in TaskIds : WF_vars(CallTimesOut(k))

-----------------------------------------------------------------------------
(* Vocabulary of the properties *)

Range(f) == {f[i] : i \in DOMAIN f}

Returned == pc = "done"

NonImages == {i \in 1..Len(files) : ~IsImage(files[i].type)}

InFlight == Cardinality({k \in DOMAIN tpc : tpc[k] = "calling"})

NoErrorText(e) == e = None \/ e = ""

\* the entries of a summary that name the file
EntriesOf(sum, file_name) ==
    {i \in DOMAIN sum.files : sum.files[i].file_name = file_name}

-----------------------------------------------------------------------------
\* C1: every summary process_batch returns has successful + failed =
\* total_processed and total_processed <= total_files.
C1_SummaryCounts ==
    Returned =>
        /\ returned.successful + returned.failed = returned.total_processed
        /\ returned.total_processed <= returned.total_files

C1_Witness ==
    /\ Returned
    /\ skipped_count > 0
    /\ returned.successful > 0
    /\ returned.failed > 0

\* C2: a file whose type does not start with image/ gets no task (so nothing
\* is acquired, called or stored for it), no entry naming it has a storage
\* key, no stored key carries its name, it is missing from total_processed,
\* and process_batch does not raise.
C2_NonImageNeverDispatched ==
    /\ pc # "raised"
    /\ \A i \in NonImages :
        /\ i \notin Range(tasks)
        /\ \A key \in s3 : FileBase(files[i].name) \notin Range(key)
        /\ summary # EmptyDict =>
              \A e \in EntriesOf(summary, files[i].name) :
                  summary.files[e].s3_key = NoKey
    /\ Returned =>
        /\ returned.total_processed = returned.total_files - Cardinality(NonImages)
        /\ NonImages # {} => returned.total_processed < returned.total_files

C2_Witness ==
    /\ Returned
    /\ NonImages # {}
    /\ \E e \in DOMAIN returned.files : returned.files[e].s3_key # NoKey

\* C3: every item whose remote call returned is recorded with success = TRUE
\* and every item whose remote call raised with success = FALSE and an error
\* text, whatever the other items did; three items of which the second
\* raised give total_processed 3, successful 2, failed 1.
C3_Isolation ==
    Returned =>
        /\ \A k \in DOMAIN remote :
            /\ remote[k] = "returned" => returned.files[k].success
            /\ remote[k] = "raised" =>
                  /\ ~returned.files[k].success
                  /\ ~NoErrorText(returned.files[k].error)
        /\ remote = <<"returned", "raised", "returned">> =>
              /\ returned.total_processed = 3
              /\ returned.successful = 2
              /\ returned.failed = 1

C3_Witness ==
    /\ Returned
    /\ remote = <<"returned", "raised", "returned">>

\* C4: a task that ended with an exception is replaced by a failure record
\* (success FALSE, the error text of an unhandled exception); the summary is
\* built only when every task has ended and has one entry per task;
\* process_batch does not raise.
C4_FaultBecomesFailure ==
    /\ pc # "raised"
    /\ summary # EmptyDict =>
        /\ \A k \in DOMAIN tpc : tpc[k] \in {"done", "raised"}
        /\ Len(summary.files) = Len(tasks)
        /\ \A k \in DOMAIN tpc :
              tpc[k] = "raised" =>
                  /\ ~summary.files[k].success
                  /\ summary.files[k].error = "Unhandled exception"

C4_Witness ==
    /\ Returned
    /\ \E k \in DOMAIN tpc : tpc[k] = "raised"
    /\ \E k \in DOMAIN tpc : tpc[k] = "done" /\ returned.files[k].success

\* What went wrong for the item of task k before its artifact was stored.
ItemFailed(k) ==
    \/ tpc[k] = "raised"
    \/ remote[k] \in {"raised", "timeout"}
    \/ ~CanOpen(FileOf(k).bytes)

MarkerFailed ==
    /\ pc \notin {"new", "init_raised", "idle", "marker"}
    /\ BatchStartKey(S3Folder(batch_id, timestamp)) \notin s3

\* the summary shows that something failed
FailureShown(sum) ==
    \/ sum.failed > 0
    \/ \E e \in DOMAIN sum.files :
          sum.files[e].s3_key = NoKey \/ sum.files[e].error # None

\* C5 as stated: process_batch never raises, and every failure (of an
\* item, of the put of the start marker, of the put of the summary) is data
\* of the returned summary.
C5_AsStated ==
    /\ pc # "raised"
    /\ Returned =>
        /\ (\E k \in DOMAIN tpc : ItemFailed(k) \/ Has(result[k], "s3_error"))
              => FailureShown(returned)
        /\ MarkerFailed => FailureShown(returned)
        /\ summary_put = "failed" => FailureShown(returned)

\* C5 amended: process_batch never raises, and every failure of an item is
\* data of the returned summary: a failed entry with an error text for a
\* decode error, a remote timeout, a remote error and a task fault, an entry
\* without storage key for a failed put of the artifact.
C5_ItemFailuresAreData ==
    /\ pc # "raised"
    /\ Returned =>
        \A k \in DOMAIN tpc :
            /\ ItemFailed(k) =>
                  /\ ~returned.files[k].success
                  /\ ~NoErrorText(returned.files[k].error)
            /\ Has(result[k], "s3_error") => returned.files[k].s3_key = NoKey

C5_Witness ==
    /\ Returned
    /\ MarkerFailed
    /\ summary_put = "failed"
    /\ \E k \in DOMAIN tpc : tpc[k] = "raised"
    /\ \E k \in DOMAIN tpc : remote[k] = "timeout" /\ Has(result[k], "s3_error")
    /\ \E k \in DOMAIN tpc : tpc[k] = "done" /\ ~CanOpen(FileOf(k).bytes)

\* C6: in every interval of WindowSeconds at most requests_per_minute tasks
\* pass the limiter: the acquisitions of the last WindowSeconds never
\* number more than rpm.
C6_RollingWindow == Len(recent) <= rpm

\* C7: with requests_per_minute = 2, at most 2 remote calls are in flight at
\* any instant of the first WindowSeconds.
C7_TwoInFlight == (rpm = 2 /\ now < WindowSeconds) => InFlight <= 2

\* C10: when the put of the summary failed, process_batch returned the
\* summary of all results, the same it returns when the put succeeds.
C10_SummaryReturnedAnyway ==
    (Returned /\ summary_put = "failed") =>
        /\ returned = CompileSummary(ProcessedResults)
        /\ Len(returned.files) = Len(tasks)

C10_Witness ==
    /\ Returned
    /\ summary_put = "failed"
    /\ returned.successful > 0
    /\ returned.failed > 0

-----------------------------------------------------------------------------
(* Progress, under FairSpec *)

Calling(k) == k \in DOMAIN tpc /\ tpc[k] = "calling"

IsTimeoutFailure(r) ==
    /\ ~r.success
    /\ r.error = "Gemini API timeout after 120 seconds"
    /\ ~Has(r, "markdown")

\* some put into the bucket has not been answered
StoragePending ==
    \/ pc \in {"marker", "summary_put"}
    \/ \E k \in DOMAIN tpc : tpc[k] = "uploading"

\* C8: a remote call that does not return stops being waited for: the item
\* leaves the call, no item is given up before TimeoutSeconds have passed,
\* an item that was given up holds the timeout failure (success FALSE, the
\* timeout error text) from then on, and process_batch returns unless a put
\* into the bucket stays unanswered: no remote call holds it back.
C8_TimeoutResolves ==
    /\ \A k \in TaskIds : Calling(k) ~> (k \in DOMAIN tpc /\ tpc[k] \in {"uploading", "done"})
    /\ (<>Returned \/ <>[]StoragePending)
    /\ [][\A k \in DOMAIN remote :
            (remote[k] = "pending" /\ remote'[k] = "timeout")
                => elapsed[k] >= TimeoutSeconds]_vars
    /\ [](\A k \in DOMAIN remote : remote[k] = "timeout" => IsTimeoutFailure(result[k]))

C8_Witness ==
    /\ Returned
    /\ \E k \in DOMAIN remote :
          /\ remote[k] = "timeout"
          /\ ~returned.files[k].success
          /\ returned.files[k].error = "Gemini API timeout after 120 seconds"

\* C9: once process_batch has started it ends and returns a summary,
\* whatever the remote calls and the puts do.
C9_AlwaysReturns == (pc = "marker") ~> Returned

-----------------------------------------------------------------------------
(* Storage of the items' artifacts and the list of the summary *)

ReturnedOk == {k \in DOMAIN remote : remote[k] = "returned"}

\* C11: a failed put of an item's artifact leaves the success flag as the
\* remote call set it (an extracted item stays success = TRUE and is counted
\* in successful), is recorded on the result as s3_error, and the task
\* returns its result instead of raising.
C11_StorageFailureIsAnnotation ==
    /\ pc # "raised"
    /\ \A k \in DOMAIN put :
          put[k] = "failed" =>
              /\ tpc[k] = "done"
              /\ Has(result[k], "s3_error")
              /\ result[k].success = (remote[k] = "returned")
    /\ Returned =>
          /\ \A k \in DOMAIN put :
                put[k] = "failed" => returned.files[k].success = (remote[k] = "returned")
          /\ returned.successful = Cardinality(ReturnedOk)

C11_Witness ==
    /\ Returned
    /\ \E k \in DOMAIN put :
          put[k] = "failed" /\ remote[k] = "returned" /\ returned.files[k].success
    /\ \E k \in DOMAIN put : put[k] = "failed" /\ ~returned.files[k].success

\* the names a summary or the batch mentions
NamesOf(sum) ==
    {files[i].name : i \in 1..Len(files)} \cup
    {sum.files[e].file_name : e \in DOMAIN sum.files}

EligibleNamed(file_name) ==
    {i \in 1..Len(files) : IsImage(files[i].type) /\ files[i].name = file_name}

\* C12: total_files is the number of submitted files, total_processed the
\* number of files whose type starts with image/, and the list of the
\* summary names every such file once per submission and no other file.
C12_OneEntryPerEligible ==
    Returned =>
        /\ returned.total_files = Len(files)
        /\ returned.total_processed = Len(files) - Cardinality(NonImages)
        /\ Len(returned.files) = returned.total_processed
        /\ \A n \in NamesOf(returned) :
              Cardinality(EntriesOf(returned, n)) = Cardinality(EligibleNamed(n))

\* C14: the list of the summary names the eligible files in the order they
\* were submitted in, whatever the order the tasks ended in.
C14_SubmissionOrder ==
    Returned =>
        [e \in DOMAIN returned.files |-> returned.files[e].file_name]
            = [e \in 1..Len(Eligible(files)) |-> files[Eligible(files)[e]].name]

\* C18: the result of an item holds s3_key exactly when the put of its
\* artifact succeeded, for a result artifact and for an error artifact
\* alike; the key is then the one of an object in the bucket and the one
\* the summary shows; after a failed put (and for a task that put
\* nothing) the entry of the summary has no key.
C18_KeyIffStored ==
    /\ \A k \in DOMAIN put :
          /\ Has(result[k], "s3_key") <=> put[k] = "ok"
          /\ Has(result[k], "s3_key") => result[k].s3_key \in s3
    /\ Returned =>
          \A k \in DOMAIN put :
              /\ put[k] = "ok" =>
                    /\ returned.files[k].s3_key = result[k].s3_key
                    /\ returned.files[k].s3_key # NoKey
              /\ put[k] # "ok" => returned.files[k].s3_key = NoKey

C18_Witness ==
    /\ Returned
    /\ \E k \in DOMAIN put : put[k] = "ok" /\ returned.files[k].success
    /\ \E k \in DOMAIN put : put[k] = "ok" /\ ~returned.files[k].success
    /\ \E k \in DOMAIN put : put[k] = "failed"

-----------------------------------------------------------------------------
(* Batch identity, construction, keys *)

\* the calls of process_batch that have returned, the running one last
CallsSoFar ==
    IF Returned
    THEN Append(earlier, [summary |-> returned, written |-> written])
    ELSE earlier

\* C13: any two calls of process_batch on the same input have different
\* batch_id and s3_folder in their summaries, and no key one of them put
\* is a key the other put (the running call included).
C13_BatchesApart ==
    /\ \A i, j \in DOMAIN CallsSoFar :
          i # j =>
              /\ CallsSoFar[i].summary.batch_id # CallsSoFar[j].summary.batch_id
              /\ CallsSoFar[i].summary.s3_folder # CallsSoFar[j].summary.s3_folder
              /\ CallsSoFar[i].written \cap CallsSoFar[j].written = {}
    /\ \A i \in DOMAIN earlier : earlier[i].written \cap written = {}

C13_Witness ==
    /\ Returned
    /\ Len(earlier) = 1
    /\ earlier[1].summary.timestamp = returned.timestamp
    /\ earlier[1].summary.files # << >>
    /\ Cardinality(earlier[1].written) = 3
    /\ Cardinality(written) = 3

\* C16: without the credential the construction raises and nothing of a
\* batch happens: no put (the start marker included), no acquire of the
\* limiter, no task, no remote call, no batch_id.
C16_NoWorkWithoutCredential ==
    gemini_api_key \in {None, ""} =>
        /\ pc \in {"new", "init_raised"}
        /\ s3 = {}
        /\ written = {}
        /\ level = 0
        /\ recent = << >>
        /\ tasks = << >>
        /\ remote = << >>
        /\ uuids = 0

C16_Witness ==
    /\ pc = "init_raised"
    /\ gemini_api_key = ""
    /\ Len(files) = MaxFiles

\* the key the specification describes
StatedKey(prefix, base_name, success) ==
    IF success
    THEN prefix \o <<base_name, ".md">>
    ELSE prefix \o <<"errors/", base_name, ".error.txt">>

\* the clock readings so far
ClockReadings == {t \in 0..now : t % TickSeconds = 0}

\* the keys the items have: the one _upload_to_s3 holds, the one on the result
ItemKeys(k) ==
    (IF s3_key[k] # NoKey THEN {s3_key[k]} ELSE {}) \cup
    (IF Has(result[k], "s3_key") THEN {result[k].s3_key} ELSE {})

\* C17 as stated: the key of an item is made of the prefix and the base
\* name of its file alone.
C17_AsStated ==
    \A k \in DOMAIN s3_key :
        \A key \in ItemKeys(k) :
            key = StatedKey(S3Folder(batch_id, timestamp),
                            FileBase(FileOf(k).name), result[k].success)

\* C17 amended: the key of an item is the prefix, "errors/" for a failed
\* result, the base name of its file, "_", a reading of the clock, and ".md"
\* or ".error.txt".
C17_KeyOfPrefixBaseAndSecond ==
    \A k \in DOMAIN s3_key :
        \A key \in ItemKeys(k) :
            LET head == S3Folder(batch_id, timestamp)
                          \o (IF result[k].success THEN << >> ELSE <<"errors/">>)
                          \o <<FileBase(FileOf(k).name), "_">>
                n == Len(head)
            IN  /\ Len(key) = n + 2
                /\ SubSeq(key, 1, n) = head
                /\ \E t \in ClockReadings : key[n + 1] = Strftime(t)
                /\ key[n + 2] = (IF result[k].success THEN ".md" ELSE ".error.txt")

\* two files of the same name and outcome stored under different keys
C17_Witness ==
    /\ Returned
    /\ \E j, k \in DOMAIN put :
          /\ put[j] = "ok" /\ put[k] = "ok"
          /\ FileOf(j).name = FileOf(k).name
          /\ result[j].success /\ result[k].success
          /\ result[j].s3_key # result[k].s3_key
    /\ \E k \in DOMAIN put : put[k] = "ok" /\ ~result[k].success

\* the results the tasks hold once the remote step is behind them
ItemResults == {result[k] : k \in {j \in DOMAIN tpc : tpc[j] \in {"uploading", "done"}}}

\* C15: for every item result, success is TRUE exactly when the markdown is
\* there and not empty, and exactly when there is no error text.
C15_SuccessIffMarkdown ==
    \A r \in ItemResults :
        /\ r.success <=> (Has(r, "markdown") /\ r.markdown # << >>)
        /\ r.success <=> ~Has(r, "error")

-----------------------------------------------------------------------------
\* C19: the progress the poller can read is (0, total, starting) before any
\* item completes and (total, total, complete) after the batch finished,
\* both counts being the number of files of the batch, whatever files were
\* skipped or failed.
C19_StartAndEndProgress ==
    runner =>
        /\ (pc \in {"new", "idle", "marker", "gather"} /\ processed_count = 0)
              => LoadProgress(progress_file) = Progress(0, Len(files), StartingMessage)
        /\ pc = "finished"
              => LoadProgress(progress_file) =
                     Progress(Len(files), Len(files), CompleteMessage)

\* C20: of two successive reads of the poller during one batch, the second
\* never shows a smaller completed count than the first.
C20_PolledNeverDecreases ==
    (runner /\ Len(polled) = 2) => polled[1] <= polled[2]

-----------------------------------------------------------------------------
(* The order of the steps of a batch and of an item *)

Unresolved(k) == tpc[k] \in {"waiting", "calling", "uploading"}

\* C22: the summary is built only after every dispatched task has resolved:
\* in no state does process_batch count or build the summary, or stand
\* behind that point, while a task is still in flight.
C22_AggregationAfterTasks ==
    (summary # EmptyDict \/ pc \in {"summary_put", "done", "captured", "finished"})
        => \A k \in DOMAIN tpc : ~Unresolved(k)

C22_Witness ==
    /\ pc = "summary_put"
    /\ summary # EmptyDict
    /\ \E k \in DOMAIN tpc : tpc[k] = "raised"
    /\ \E k \in DOMAIN tpc : tpc[k] = "done" /\ put[k] = "ok"
    /\ \E k \in DOMAIN tpc : tpc[k] = "done" /\ put[k] = "failed"

\* C23: a call hands the summary to the bucket once, under
\* {prefix}_summary.json, after every task has resolved; what it returns is
\* what it handed to that put.
C23_SummaryWrittenOnce ==
    /\ Len(summary_puts) <= 1
    /\ summary_puts # << >> => \A k \in DOMAIN tpc : tpc[k] \in {"done", "raised"}
    /\ summary_put = "ok" =>
          <<"invoice_processing/", batch_id, "_", timestamp, "/", "_summary.json">>
              \in written
    /\ pc \in {"done", "captured", "finished"} =>
          /\ Len(summary_puts) = 1
          /\ returned = summary_puts[1]

C23_Witness ==
    /\ pc = "done"
    /\ Len(summary_puts) = 1
    /\ Len(returned.files) >= 2
    /\ summary_put = "ok"

\* C24: a task takes its slot before it invokes the remote service, and
\* hands its artifact to the bucket only when the outcome of the item is
\* there: never while the call is pending, never without a slot.
C24_SlotThenCallThenPut ==
    \A k \in DOMAIN tpc :
        /\ calls[k] > 0 => slots[k] > 0
        /\ puts[k] > 0 => (slots[k] > 0 /\ Has(result[k], "success"))
        /\ tpc[k] \in {"waiting", "calling"} => puts[k] = 0
        /\ tpc[k] = "waiting" => calls[k] = 0

C24_Witness ==
    \E k \in DOMAIN tpc :
        /\ tpc[k] = "done"
        /\ slots[k] = 1 /\ calls[k] = 1 /\ puts[k] = 1
        /\ \E j \in DOMAIN tpc : tpc[j] = "waiting"

\* C25: a dispatched item makes at most one remote call, and, once its task
\* has ended, one or two puts of an artifact.
C25_OneCallOneOrTwoPuts ==
    \A k \in DOMAIN tpc :
        /\ calls[k] <= 1
        /\ tpc[k] \in {"done", "raised"} => puts[k] \in {1, 2}

C27_FailedEntryNamesItsFile ==
    Returned =>
        \A e \in DOMAIN returned.files :
            ~returned.files[e].success =>
                /\ returned.files[e].file_name = FileOf(e).name
                /\ returned.files[e].error # None

\* C28: within one batch no two items are stored under the same key, so
\* that no artifact is overwritten by the one of another item, also for
\* files that share their base name and whenever they complete.
C28_NoSharedKey ==
    \A j \in DOMAIN put : \A k \in DOMAIN put :
        (j # k /\ put[j] = "ok" /\ put[k] = "ok")
            => result[j].s3_key # result[k].s3_key

-----------------------------------------------------------------------------
(* The page and its worker *)

\* the tasks that have invoked the remote service
Called == {k \in DOMAIN calls : calls[k] > 0}

\* C21: under the page at most 10 remote calls are admitted in any 60
\* seconds, as the page tells its user; here, in the first 60 seconds of a
\* batch.
C21_TenPerMinute ==
    (runner /\ now < WindowSeconds) => Cardinality(Called) <= UiRate

\* the tasks whose _process_and_upload has ended, with a result or an exception
Finished == {k \in DOMAIN tpc : tpc[k] \in {"done", "raised"}}

\* C29: processed_count is the number of dispatched items whose
\* _process_and_upload has finished, whatever the order the tasks ended in;
\* the progress written for the items carries that count, one more with
\* every write; the count never exceeds total_count.
C29_CountsCompletions ==
    runner =>
        /\ processed_count = Cardinality(Finished)
        /\ processed_count <= total_count
        /\ pc \in {"marker", "gather", "summary_put", "done", "captured"}
              => progress_file[1].current = processed_count

\* C30: when the page takes a batch for complete, the marker it saw was
\* written by the worker of that batch, and the summary the results view
\* shows is the one of that batch: a worker left running by an earlier click
\* can bring about neither.
C30_MarkerOfThisBatch ==
    runner =>
        /\ processing_complete => pc \in {"captured", "finished"}
        /\ (shown_kind = "complete" /\ shown_summary # << >>)
              => shown_summary[1] = returned


-----------------------------------------------------------------------------
(* The files of the worker and the results view of the page *)

\* C31: while one worker runs, the completion marker holds "complete" only
\* when the end time and the summary file are written, so that a results
\* view that found the marker shows a summary; and it holds "error" only when
\* the progress file holds the error message.
C31_MarkerAfterSummary ==
    runner =>
        /\ complete_file = "complete" =>
              /\ timer_file = "ended"
              /\ summary_file = <<returned>>
        /\ complete_file = "error" =>
              /\ progress_file # << >>
              /\ MentionsError(progress_file[1].message)
        /\ shown_kind = "complete" => shown_summary = <<returned>>
        /\ pc \in {"captured", "finished"} => complete_file = "complete"
        /\ pc = "errored" => complete_file = "error"

C31_Witness ==
    /\ runner
    /\ shown_kind = "complete"
    /\ complete_file = "complete"
    /\ pc = "captured"
    /\ returned.successful = 1

\* the error path of C31 has run and the page has shown the error
C31_ErrorShown ==
    /\ runner
    /\ pc = "errored"
    /\ complete_file = "error"
    /\ shown_kind = "error"

\* the worker has left `await coro` with a summary
CompletedWithoutRaising == pc \in {"done", "timed", "saved", "captured", "finished"}

\* C32: when the batch completed without raising, the results view has not
\* classified the run as an error, whenever it read the files and whatever
\* the files of the batch are called.
C32_NeverShownAsError ==
    (runner /\ CompletedWithoutRaising) => shown_kind # "error"

\* C33: since the last click on Process Invoices or Reset the page has
\* started at most one worker thread, however often the poll branch ran; it
\* has started none before the batch's first poll, and none after a Reset.
C33_OneThreadPerClick ==
    runner =>
        /\ thread_starts <= 1
        /\ processing_thread <=> thread_starts = 1
        /\ ~processing_started /\ ~processing_complete => thread_starts = 0

\* the poll branch ran twice after the thread was started, over a worker
\* left behind by an earlier click
C33_Witness ==
    /\ runner
    /\ thread_starts = 1
    /\ Len(polled) = 2
    /\ stale # "none"
    /\ pc \in {"gather", "summary_put"}

-----------------------------------------------------------------------------
(* The S3 browser *)

\* the index is in range and the folder shown is the one the index points at
HistoryInStep ==
    /\ history_index \in -1..(Len(history) - 1)
    /\ history # << >> =>
          /\ history_index >= 0
          /\ current_path = At(history, history_index)
    /\ history = << >> => current_path = << >>

\* C34: after any clicks on folders, breadcrumbs, Home, Back and Forward,
\* history_index is within -1 .. len(history) - 1 and, the history not empty,
\* current_path is history[history_index]; a click on Back or Forward moves
\* the index by one and changes nothing but the index and current_path.
C34_HistoryInStep ==
    /\ []HistoryInStep
    /\ [][last_click' \in {"back", "forward"} =>
              /\ history' = history
              /\ selected_file' = selected_file
              /\ history_index' \in {history_index - 1, history_index + 1}
              /\ current_path' = At(history, history_index')]_browserVars

\* Back clicked while a file is selected, in a history of three folders
\* that ends at the root: the index is in the middle of the history
C34_Witness ==
    /\ last_click = "back"
    /\ selected_file # NoFile
    /\ Len(history) = 3
    /\ history_index = 1
    /\ history[3] = << >>
    /\ current_path # history[1]

-----------------------------------------------------------------------------
(* process_invoice of process_invoice.py *)

BeginsWithError(text) == text # << >> /\ text[1] = "Error"

\* C35: process_invoice never raises; for a file that is no image it
\* returns a string beginning with "Error" without a remote call, for an
\* image that cannot be decoded it returns such a string, and for a remote
\* failure too.
C35_SingleNeverRaises ==
    /\ invoice_pc # "raised"
    /\ ~IsImage(files[1].type) => invoice_calls = 0
    /\ invoice_pc = "returned" =>
          /\ ~IsImage(files[1].type) => BeginsWithError(invoice_out)
          /\ ~CanOpen(files[1].bytes) => BeginsWithError(invoice_out)
          /\ ~BeginsWithError(invoice_out) => invoice_calls = 1

=============================================================================
